---- MODULE Spec2Model ----
(***************************************************************************)
(* rbit: a command-line client for the qBittorrent Web API (src/main.rs).  *)
(* One behaviour of Spec is one invocation of the program: the command     *)
(* line, the configuration file on disk and the local torrent file are     *)
(* fixed in Init, the daemon's answers are chosen when a request is sent.  *)
(*                                                                         *)
(* Optional values are sequences of length 0 (None) or 1 (Some(v)).        *)
(* Host strings are sequences of characters so that trimming is computed.  *)
(***************************************************************************)
EXTENDS Integers, Sequences, FiniteSets, TLC

VARIABLES
    cli,         \* the parsed command line (struct Cli)
    rawFile,     \* the configuration file as found on disk
    fileExists,  \* whether the local .torrent file of `add` can be opened
    config,      \* the Config returned by read_config
    host,        \* effective host (main)
    username,    \* effective username (main)
    password,    \* effective password (main)
    save_path,   \* resolved save path of `add` (main)
    pc,          \* position of the invocation
    sent,        \* the HTTP requests sent so far, in order
    loginRes,    \* what login returned: "none", "ok", "err"
    loginResp,   \* the response login received, if any
    opResp,      \* the response the operation request received, if any
    result,      \* outcome of the invocation: "none", "ok" or an error kind
    errText,     \* the text carried by the error, if any
    out,         \* lines printed on standard output, in order
    arg,         \* the argument of a function applied on its own
    ret          \* what that function returned

vars == <<cli, rawFile, fileExists, config, host, username, password,
          save_path, pc, sent, loginRes, loginResp, opResp, result, errText, out,
          arg, ret>>

----------------------------------------------------------------------------
(* Bounds of the model *)

MaxHostLen == 3
MaxTorrents == 2     \* records of a snapshot given to the filter on its own
MaxNameExtra == 2    \* characters of a name beyond the truncation length
MaxRateDelta == 8    \* distance of the sampled rates from a unit threshold

----------------------------------------------------------------------------
(* Option values *)

None == <<>>
Some(v) == <<v>>
IsSome(o) == Len(o) = 1
Get(o) == o[1]
Opt(S) == {None} \cup {Some(v) : v \in S}

\* Option::or_else
OrElse(a, b) == IF IsSome(a) THEN a ELSE b

----------------------------------------------------------------------------
(* Input domains *)

HostChars == {"x", "/"}
Hosts == UNION {[1..n -> HostChars] : n \in 0..MaxHostLen}

\* Hosts of the invocations followed through the network steps
FlowHosts == {<<"x">>, <<"x", "/">>}

DefaultHost ==
    <<"h","t","t","p",":","/","/","1","2","7",".","0",".","0",".","1",":","8","0","8","0">>

MagnetInput == <<"magnet:", "?xt=urn:btih:ABC">>
FileInput == <<"a.torrent">>
Inputs == {MagnetInput, FileInput}

Cwd == "cwd"

\* struct Command
Commands ==
    [type : {"Add"}, input : Inputs, dest : Opt({"dest"})]
        \cup [type : {"List"}, all : BOOLEAN]

\* struct Cli (the --config path only selects which file is read: rawFile)
ClisOver(H) ==
    [host : Opt(H), username : Opt({"cu"}), password : Opt({"cp"}),
     dry_run : BOOLEAN, verbose : BOOLEAN, command : Commands]

\* The [qbittorrent] table as written in the file: every key may be missing.
RawQB(H) == [host : Opt(H), username : Opt({"fu"}), password : Opt({"fp"})]

\* The file on disk: missing or not TOML (None), or a table.
RawFilesOver(H) ==
    Opt([default_save_path : Opt({"cfgpath"}), qbittorrent : Opt(RawQB(H))])

DefaultConfig == [default_save_path |-> None, qbittorrent |-> None]

\* read_config: the file is optional; a build or deserialization failure
\* gives the defaults.  QBConfig.host is a required String, so a
\* [qbittorrent] table without host fails to deserialize as a whole.
read_config(raw) ==
    IF ~IsSome(raw) THEN DefaultConfig
    ELSE IF IsSome(Get(raw).qbittorrent) /\ ~IsSome(Get(Get(raw).qbittorrent).host)
         THEN DefaultConfig
    ELSE [default_save_path |-> Get(raw).default_save_path,
          qbittorrent |->
            IF IsSome(Get(raw).qbittorrent)
            THEN Some([host |-> Get(Get(Get(raw).qbittorrent).host),
                       username |-> Get(Get(raw).qbittorrent).username,
                       password |-> Get(Get(raw).qbittorrent).password])
            ELSE None]

----------------------------------------------------------------------------
(* Pure helpers of main *)

\* str::trim_end_matches('/'): removes every trailing '/'
RECURSIVE trim_end_matches(_)
trim_end_matches(s) ==
    IF Len(s) > 0 /\ s[Len(s)] = "/"
    THEN trim_end_matches(SubSeq(s, 1, Len(s) - 1))
    ELSE s

\* main, lines 115-121
EffectiveHostConfigUntrimmed(c, cfg) ==
    IF IsSome(c.host) THEN trim_end_matches(Get(c.host))
    ELSE IF IsSome(cfg.qbittorrent) THEN Get(cfg.qbittorrent).host
    ELSE DefaultHost

EffectiveHost(c, cfg) ==
    IF IsSome(c.host) THEN trim_end_matches(Get(c.host))
    ELSE IF IsSome(cfg.qbittorrent) THEN trim_end_matches(Get(cfg.qbittorrent).host)
    ELSE DefaultHost

\* main, line 123
EffectiveUsernameConfigFirst(c, cfg) ==
    OrElse(IF IsSome(cfg.qbittorrent) THEN Get(cfg.qbittorrent).username ELSE None,
           c.username)

EffectiveUsername(c, cfg) ==
    OrElse(c.username,
           IF IsSome(cfg.qbittorrent) THEN Get(cfg.qbittorrent).username ELSE None)

\* main, line 124
EffectivePassword(c, cfg) ==
    OrElse(c.password,
           IF IsSome(cfg.qbittorrent) THEN Get(cfg.qbittorrent).password ELSE None)

\* input.starts_with("magnet:")
IsMagnet(input) == Len(input) > 0 /\ input[1] = "magnet:"

----------------------------------------------------------------------------
(* The daemon's answers *)

Statuses == {200, 299, 300, 403}

\* StatusCode::is_success
is_success(status) == 200 <= status /\ status < 300

TextBody(t) == [kind |-> "text", text |-> t, items |-> <<>>]
JsonBody(arr) == [kind |-> "json", text |-> "[...]", items |-> arr]

TextBodies == {TextBody(t) : t \in {"Ok.", "Ok", "Fails."}}

----------------------------------------------------------------------------
(* Strings of the torrent records: sequences of characters.  A character  *)
(* is a token; the two tokens below stand for characters whose UTF-8       *)
(* encoding has 2 and 3 bytes, every other token is an ASCII character.    *)

TwoByteChar == "U+00E9"
ThreeByteChar == "U+65E5"

Utf8Width(c) == IF c = TwoByteChar THEN 2 ELSE IF c = ThreeByteChar THEN 3 ELSE 1

Repeat(c, n) == [i \in 1..n |-> c]

\* str::len: the length in bytes
RECURSIVE str_len(_)
str_len(s) == IF s = <<>> THEN 0 ELSE Utf8Width(Head(s)) + str_len(Tail(s))

\* The number of leading characters of s that fit into n bytes
RECURSIVE CharsWithin(_, _)
CharsWithin(s, n) ==
    IF s = <<>> \/ Utf8Width(Head(s)) > n THEN 0
    ELSE 1 + CharsWithin(Tail(s), n - Utf8Width(Head(s)))

\* &s[..n]: the first n bytes; None stands for the panic of a byte index
\* beyond the end or inside a character
slice_to(s, n) ==
    LET k == CharsWithin(s, n) IN
    IF str_len(SubSeq(s, 1, k)) = n THEN Some(SubSeq(s, 1, k)) ELSE None

\* The `n` of truncate(&t.name, 40)
TruncateLen == 40

\* truncate, lines 185-193; None stands for the panic of s[..n]
truncate(s, n) ==
    IF str_len(s) <= n THEN Some(s)
    ELSE LET t == slice_to(s, n) IN
         IF IsSome(t) THEN Some(Get(t) \o <<".", ".", ".">>) ELSE None

\* list_torrents, line 215: the first 8 bytes of the hash
ShortId(hash) == IF str_len(hash) >= 8 THEN slice_to(hash, 8) ELSE Some(hash)

\* A formatted number: num is the value in units of 10^-decimals
Formatted(num, decimals, unit) == [num |-> num, decimals |-> decimals, unit |-> unit]

\* format!("{:.2}", b as f64 / (h * h) as f64) as hundredths: b and the
\* power of two h * h are exact in f64 and so is the quotient, which the
\* formatter rounds to the nearest hundredth, a tie to the even digit.
\* The arithmetic is split so that no intermediate exceeds 2^31.
Hundredths(b, h) ==
    LET unit == h * h
        r == b % unit
        y == (r % h) * 100
        z == (r \div h) * 100 + (y \div h)
        q == z \div h
        rem == (z % h) * h + (y % h)
        half == unit \div 2
        up == rem > half \/ (rem = half /\ q % 2 = 1)
    IN  (b \div unit) * 100 + q + (IF up THEN 1 ELSE 0)

KB == 1024

\* bytes_human, lines 172-183
bytes_humanStrict(b) ==
    IF b > KB * KB * KB THEN Formatted(Hundredths(b, 32768), 2, "GB/s")
    ELSE IF b > KB * KB THEN Formatted(Hundredths(b, 1024), 2, "MB/s")
    ELSE IF b > KB THEN Formatted(Hundredths(b, 32), 2, "KB/s")
    ELSE Formatted(b, 0, "B/s")

bytes_human(b) ==
    IF b >= KB * KB * KB THEN Formatted(Hundredths(b, 32768), 2, "GB/s")
    ELSE IF b >= KB * KB THEN Formatted(Hundredths(b, 1024), 2, "MB/s")
    ELSE IF b >= KB THEN Formatted(Hundredths(b, 32), 2, "KB/s")
    ELSE Formatted(b, 0, "B/s")

\* list_torrents, line 218: format!("{:.1}%", p * 100.0) or "-"; the
\* progress is in hundredths, so the percentage has the decimal 0
ProgressString(progress) ==
    IF IsSome(progress) THEN Formatted(Get(progress) * 10, 1, "%")
    ELSE Formatted(0, 0, "-")

\* JSON objects of a torrents/info answer.  progress is in hundredths
\* (100 is 1.0).  A missing name stands for a missing required field; the
\* hash with a 2-byte character at bytes 7..8 makes `t.hash[..8]` panic.
TorrentObjects ==
    { [name |-> Some(<<"u", "b", "u", "n", "t", "u">>),
       hash |-> Some(<<"0", "1", "2", "3", "4", "5", "6", "7", "8", "9">>),
       state |-> Some("uploading"),
       progress |-> Some(100), dlspeed |-> Some(0), upspeed |-> Some(0)],
      [name |-> Some(<<"d", "e", "b", "i", "a", "n">>),
       hash |-> Some(<<"a", "b", "c", "d", "e", "f">>),
       state |-> Some("downloading"),
       progress |-> Some(50), dlspeed |-> None, upspeed |-> None],
      [name |-> Some(<<"a", "r", "c", "h">>),
       hash |-> Some(<<"f", "e", "d", "c", "b", "a", "9", "8", "7", "6">>),
       state |-> Some("stalledUP"),
       progress |-> None, dlspeed |-> Some(0), upspeed |-> Some(2048)],
      [name |-> Some(<<"m", "i", "n", "t">>),
       hash |-> Some(<<"c", "a", "f", "e", "0", "0", "0", TwoByteChar>>),
       state |-> Some("downloading"),
       progress |-> Some(10), dlspeed |-> Some(1024), upspeed |-> None],
      [name |-> None,
       hash |-> Some(<<"0", "0", "0", "0", "0", "0", "0", "0">>),
       state |-> Some("error"),
       progress |-> Some(100), dlspeed |-> Some(0), upspeed |-> Some(0)] }

\* The arrays answered to an invocation: empty or of one object (longer
\* snapshots are given to the filter on its own, see Snapshots)
JsonArrays == UNION {[1..n -> TorrentObjects] : n \in 0..1}
ListBodies == TextBodies \cup {JsonBody(a) : a \in JsonArrays}

\* A response: the status line arrived; body is None when reading it failed.
Responses(B) == [status : Statuses, body : Opt(B)]

\* serde_json::from_str::<Vec<TorrentInfo>>: None on a decoding error.
\* name, hash and state are required fields of TorrentInfo.
from_str(body) ==
    IF body.kind = "json"
       /\ \A i \in 1..Len(body.items) :
            /\ IsSome(body.items[i].name)
            /\ IsSome(body.items[i].hash)
            /\ IsSome(body.items[i].state)
    THEN Some([i \in 1..Len(body.items) |->
                 [name |-> Get(body.items[i].name),
                  hash |-> Get(body.items[i].hash),
                  state |-> Get(body.items[i].state),
                  progress |-> body.items[i].progress,
                  dlspeed |-> body.items[i].dlspeed,
                  upspeed |-> body.items[i].upspeed]])
    ELSE None

\* Option::unwrap_or
unwrap_or(o, d) == IF IsSome(o) THEN Get(o) ELSE d

\* list_torrents, lines 203-211: the filter closure
RetainedInclusive(t, all) ==
    \/ all
    \/ unwrap_or(t.progress, 0) <= 100
    \/ unwrap_or(t.dlspeed, 0) > 0
    \/ unwrap_or(t.upspeed, 0) > 0

RetainedAbsentIsComplete(t, all) ==
    \/ all
    \/ unwrap_or(t.progress, 100) < 100
    \/ unwrap_or(t.dlspeed, 0) > 0
    \/ unwrap_or(t.upspeed, 0) > 0

Retained(t, all) ==
    \/ all
    \/ unwrap_or(t.progress, 0) < 100
    \/ unwrap_or(t.dlspeed, 0) > 0
    \/ unwrap_or(t.upspeed, 0) > 0

RECURSIVE Filter(_, _)
Filter(ts, all) ==
    IF ts = <<>> THEN <<>>
    ELSE (IF Retained(Head(ts), all) THEN <<Head(ts)>> ELSE <<>>)
             \o Filter(Tail(ts), all)

\* list_torrents, lines 215-221: the TorrentRow of a record; id and name
\* are None when their slice panics
Row(t) ==
    [id |-> ShortId(t.hash),
     name |-> truncate(t.name, TruncateLen),
     status |-> t.state,
     progress |-> ProgressString(t.progress),
     dl |-> bytes_human(unwrap_or(t.dlspeed, 0)),
     up |-> bytes_human(unwrap_or(t.upspeed, 0))]

\* list_torrents, lines 213-222: the rows of the table, None when building
\* a row panics
TableRows(rows) ==
    LET built == [i \in 1..Len(rows) |-> Row(rows[i])] IN
    IF \E i \in 1..Len(rows) : ~IsSome(built[i].id) \/ ~IsSome(built[i].name)
    THEN None
    ELSE Some([i \in 1..Len(rows) |->
                 [built[i] EXCEPT !.id = Get(@), !.name = Get(@)]])

\* format!("{}/api/v2/...", host)
Url(h, path) == h \o <<path>>

LoginPath == "/api/v2/auth/login"
AddPath == "/api/v2/torrents/add"
InfoPath == "/api/v2/torrents/info?filter=all"

\* Path::file_name with the "upload.torrent" fallback
FileName(input) == IF Len(input) > 0 THEN input[Len(input)] ELSE "upload.torrent"

\* The function main dispatches to
Callee(c) ==
    IF c.command.type = "List" THEN "list_torrents"
    ELSE IF IsMagnet(c.command.input) THEN "add_magnet"
    ELSE "add_torrent_file"

----------------------------------------------------------------------------
\* The state before main runs, for command lines over the hosts H
InitOver(H) ==
    /\ cli \in ClisOver(H)
    /\ rawFile \in RawFilesOver(H)
    /\ fileExists \in BOOLEAN
    /\ (Callee(cli) # "add_torrent_file") => fileExists = FALSE
    /\ config = DefaultConfig
    /\ host = <<>>
    /\ username = None
    /\ password = None
    /\ save_path = None
    /\ pc = "start"
    /\ sent = <<>>
    /\ loginRes = "none"
    /\ loginResp = None
    /\ opResp = None
    /\ result = "none"
    /\ errText = None
    /\ out = <<>>
    /\ arg = None
    /\ ret = None

Init == InitOver(FlowHosts)

\* An error propagated by `?` or bail! up to main's return
Fail(kind, text) ==
    /\ result' = kind
    /\ errText' = text
    /\ pc' = "exit"

\* main, lines 109-124: read the config, build the client, resolve settings
Main_Resolve ==
    /\ pc = "start"
    /\ config' = read_config(rawFile)
    /\ \E clientOk \in BOOLEAN :
         IF clientOk
         THEN /\ host' = EffectiveHost(cli, config')
              /\ username' = EffectiveUsername(cli, config')
              /\ password' = EffectivePassword(cli, config')
              /\ pc' = "dispatch"
              /\ UNCHANGED <<result, errText>>
         ELSE /\ Fail("client build", None)
              /\ UNCHANGED <<host, username, password>>
    /\ UNCHANGED <<arg, ret, cli, rawFile, fileExists, save_path, sent, loginRes,
                   loginResp, opResp, out>>

\* main, lines 129-135
ResolveSavePathConfigFirst(dest, cfg, cwd) ==
    IF IsSome(cfg.default_save_path) THEN cfg.default_save_path
    ELSE IF IsSome(dest) THEN dest
    ELSE cwd

ResolveSavePath(dest, cfg, cwd) ==
    IF IsSome(dest) THEN dest
    ELSE IF IsSome(cfg.default_save_path) THEN cfg.default_save_path
    ELSE cwd

\* main, lines 126-141 and 144-145: resolve the save path and call the
\* function of the subcommand (list_torrents starts with login)
Main_Dispatch ==
    /\ pc = "dispatch"
    /\ IF cli.command.type = "Add"
       THEN \E cwd \in Opt({Cwd}) :
              LET sp == ResolveSavePath(cli.command.dest, config, cwd) IN
              IF IsSome(sp)
              THEN /\ save_path' = sp
                   /\ pc' = Callee(cli)
                   /\ UNCHANGED <<result, errText>>
              ELSE /\ Fail("io", None)       \* std::env::current_dir()?
                   /\ UNCHANGED save_path
       ELSE /\ pc' = "login"
            /\ UNCHANGED <<save_path, result, errText>>
    /\ UNCHANGED <<arg, ret, cli, rawFile, fileExists, config, host, username, password,
                   sent, loginRes, loginResp, opResp, out>>

\* add_magnet, line 251: `if dry_run`
AddMagnetDryRunIgnored(c) == FALSE

AddMagnetDryRun(c) == c.dry_run

\* add_magnet, lines 247-255: the dry-run short-circuit
AddMagnet_Entry ==
    /\ pc = "add_magnet"
    /\ IF AddMagnetDryRun(cli)
       THEN /\ out' = out \o << <<"[dry-run] POST", Url(host, AddPath)>>,
                               <<"[dry-run] form params", cli.command.input, Get(save_path)>> >>
            /\ pc' = "added"
       ELSE /\ pc' = "login"
            /\ UNCHANGED out
    /\ UNCHANGED <<arg, ret, cli, rawFile, fileExists, config, host, username, password,
                   save_path, sent, loginRes, loginResp, opResp, result, errText>>

\* add_torrent_file, line 282: `if dry_run`
AddFileDryRun(c) == c.dry_run

\* add_torrent_file, lines 271-290: open the file, then the dry-run
\* short-circuit
AddFile_Entry ==
    /\ pc = "add_torrent_file"
    /\ IF ~fileExists
       THEN /\ Fail("io", None)              \* File::open(&file)?
            /\ UNCHANGED out
       ELSE IF AddFileDryRun(cli)
       THEN /\ out' = out \o << <<"[dry-run] POST", Url(host, AddPath)>>,
                               <<"[dry-run] file", cli.command.input>>,
                               <<"[dry-run] savepath", Get(save_path)>> >>
            /\ pc' = "added"
            /\ UNCHANGED <<result, errText>>
       ELSE /\ pc' = "login"
            /\ UNCHANGED <<out, result, errText>>
    /\ UNCHANGED <<arg, ret, cli, rawFile, fileExists, config, host, username, password,
                   save_path, sent, loginRes, loginResp, opResp>>

\* Where the caller of login continues
AfterLogin(c) ==
    IF Callee(c) = "add_magnet" THEN "post_magnet"
    ELSE IF Callee(c) = "add_torrent_file" THEN "post_file"
    ELSE "get_info"

\* The [verbose] lines of a POST
VerboseLines(verbose, url, resp) ==
    IF verbose
    THEN << <<"[verbose] POST", url, resp.status>>,
            <<"[verbose] response", Get(resp.body).text>> >>
    ELSE <<>>

\* login, line 240: the body decides
LoginAcceptsByStatus(resp) == is_success(resp.status)

LoginAccepts(resp) == Get(resp.body).text = "Ok."

\* login, line 230: `if let (Some(user), Some(pass))`
HasCredentialsEither(u, p) == IsSome(u) \/ IsSome(p)

HasCredentials(u, p) == IsSome(u) /\ IsSome(p)

\* `login(...)?` in the three callers: an error of login returns from the
\* caller, success continues with the operation request
LoginThenIgnoringError(c, res) == AfterLogin(c)

LoginThenRetry(c, res) == IF res = "ok" THEN AfterLogin(c) ELSE "login"

LoginThen(c, res) == IF res = "ok" THEN AfterLogin(c) ELSE "exit"

\* login, lines 229-245 (the form fields hold the two credentials)
Login ==
    /\ pc = "login"
    /\ IF HasCredentials(username, password)
       THEN LET url == Url(host, LoginPath) IN
            /\ sent' = Append(sent, [method |-> "POST", url |-> url, path |-> LoginPath,
                                     body |-> [username |-> username,
                                               password |-> password]])
            /\ \E r \in Opt(Responses(TextBodies)) :
                 /\ loginResp' = r
                 /\ IF ~IsSome(r) \/ ~IsSome(Get(r).body)
                    THEN /\ loginRes' = "err"
                         /\ result' = "reqwest"       \* send()? or text()?
                         /\ errText' = None
                         /\ pc' = LoginThen(cli, loginRes')
                         /\ UNCHANGED out
                    ELSE /\ out' = out \o VerboseLines(cli.verbose, url, Get(r))
                         /\ IF LoginAccepts(Get(r))
                            THEN /\ loginRes' = "ok"
                                 /\ pc' = LoginThen(cli, loginRes')
                                 /\ UNCHANGED <<result, errText>>
                            ELSE /\ loginRes' = "err"
                                 /\ result' = "login failed"
                                 /\ errText' = Some(Get(Get(r).body).text)
                                 /\ pc' = LoginThen(cli, loginRes')
       ELSE /\ loginRes' = "ok"
            /\ pc' = LoginThen(cli, loginRes')
            /\ UNCHANGED <<sent, loginResp, result, errText, out>>
    /\ UNCHANGED <<arg, ret, cli, rawFile, fileExists, config, host, username, password,
                   save_path, opResp>>

\* add_magnet lines 264-268, add_torrent_file lines 303-307: the status decides
AddAcceptsByBody(resp) == Get(resp.body).text = "Ok."

AddAcceptsAlways(resp) == TRUE

AddAccepts(resp) == is_success(resp.status)

\* The tail shared by both add functions: send, read, report
AddPost(req, failure) ==
    LET url == Url(host, AddPath) IN
    /\ sent' = Append(sent, req)
    /\ \E r \in Opt(Responses(TextBodies)) :
         /\ opResp' = r
         /\ IF ~IsSome(r) \/ ~IsSome(Get(r).body)
            THEN /\ Fail("reqwest", None)             \* send()? or text()?
                 /\ UNCHANGED out
            ELSE /\ out' = out \o VerboseLines(cli.verbose, url, Get(r))
                 /\ IF AddAccepts(Get(r))
                    THEN /\ pc' = "added"
                         /\ UNCHANGED <<result, errText>>
                    ELSE Fail(failure, Some(Get(Get(r).body).text))
    /\ UNCHANGED <<arg, ret, cli, rawFile, fileExists, config, host, username, password,
                   save_path, loginRes, loginResp>>

\* add_magnet, lines 257-268
AddMagnet_Post ==
    /\ pc = "post_magnet"
    /\ AddPost([method |-> "POST", url |-> Url(host, AddPath), path |-> AddPath,
                body |-> [urls |-> cli.command.input, savepath |-> Get(save_path)]],
               "failed to add magnet")

\* add_torrent_file, lines 292-307
AddFile_Post ==
    /\ pc = "post_file"
    /\ AddPost([method |-> "POST", url |-> Url(host, AddPath), path |-> AddPath,
                body |-> [torrents |-> FileName(cli.command.input),
                          savepath |-> Get(save_path)]],
               "failed to add torrent file")

\* list_torrents, lines 197-227: GET, decode, filter, build the rows, print
\* the table
List_Get ==
    /\ pc = "get_info"
    /\ sent' = Append(sent, [method |-> "GET", url |-> Url(host, InfoPath),
                             path |-> InfoPath, body |-> <<>>])
    /\ \E r \in Opt(Responses(ListBodies)) :
         /\ opResp' = r
         /\ IF ~IsSome(r) \/ ~IsSome(Get(r).body)
            THEN /\ Fail("reqwest", None)             \* send()? or text()?
                 /\ UNCHANGED out
            ELSE LET torrents == from_str(Get(Get(r).body)) IN
                 IF ~IsSome(torrents)
                 THEN /\ Fail("serde_json", None)
                      /\ UNCHANGED out
                 ELSE LET table_rows ==
                              TableRows(Filter(Get(torrents), cli.command.all)) IN
                      IF ~IsSome(table_rows)
                      THEN /\ Fail("panic", None)    \* a slice inside a character
                           /\ UNCHANGED out
                      ELSE /\ out' = Append(out, <<"table", Get(table_rows)>>)
                           /\ result' = "ok"
                           /\ pc' = "exit"
                           /\ UNCHANGED errText
    /\ UNCHANGED <<arg, ret, cli, rawFile, fileExists, config, host, username, password,
                   save_path, loginRes, loginResp>>

\* main, lines 142 and 149: the add function returned Ok
Main_Added ==
    /\ pc = "added"
    /\ out' = Append(out, <<"Added to qBittorrent (destination)", Get(save_path)>>)
    /\ result' = "ok"
    /\ pc' = "exit"
    /\ UNCHANGED <<arg, ret, cli, rawFile, fileExists, config, host, username, password,
                   save_path, sent, loginRes, loginResp, opResp, errText>>

Next ==
    \/ Main_Resolve
    \/ Main_Dispatch
    \/ AddMagnet_Entry
    \/ AddFile_Entry
    \/ Login
    \/ AddMagnet_Post
    \/ AddFile_Post
    \/ List_Get
    \/ Main_Added

Spec == Init /\ [][Next]_vars

\* Settings resolution alone, over every host up to MaxHostLen characters
InitSettings == InitOver(Hosts)

NextSettings == Main_Resolve

SpecSettings == InitSettings /\ [][NextSettings]_vars

----------------------------------------------------------------------------
(* The pure functions of list_torrents applied on their own.  The         *)
(* invocation does not run: its variables keep the values below.           *)

Idle ==
    /\ cli = [host |-> None, username |-> None, password |-> None,
              dry_run |-> FALSE, verbose |-> FALSE,
              command |-> [type |-> "List", all |-> FALSE]]
    /\ rawFile = None
    /\ fileExists = FALSE
    /\ config = DefaultConfig
    /\ host = <<>>
    /\ username = None
    /\ password = None
    /\ save_path = None
    /\ sent = <<>>
    /\ loginRes = "none"
    /\ loginResp = None
    /\ opResp = None
    /\ result = "none"
    /\ errText = None
    /\ out = <<>>

flowVars == <<cli, rawFile, fileExists, config, host, username, password,
              save_path, sent, loginRes, loginResp, opResp, result, errText, out>>

\* Decoded records that differ in what the filter reads
FilterRecords ==
    [name : {<<"d", "e", "b", "i", "a", "n">>},
     hash : {<<"0", "1", "2", "3", "4", "5", "6", "7", "8", "9">>},
     state : {"downloading"},
     progress : Opt({50, 100}), dlspeed : Opt({0, 1}), upspeed : Opt({0, 1})]

Snapshots == UNION {[1..n -> FilterRecords] : n \in 0..MaxTorrents}

InitList ==
    /\ Idle
    /\ arg \in [torrents : Snapshots, all : BOOLEAN]
    /\ ret = None
    /\ pc = "call"

\* list_torrents, lines 203-222: the filter and the rows of the table
ListRows ==
    /\ pc = "call"
    /\ ret' = Some([rows |-> Filter(arg.torrents, arg.all),
                    table |-> TableRows(Filter(arg.torrents, arg.all))])
    /\ pc' = "return"
    /\ UNCHANGED <<arg, flowVars>>

NextList == ListRows

SpecList == InitList /\ [][NextList]_vars

----------------------------------------------------------------------------
(* Vocabulary of the properties *)

\* The error taxonomy, by the place the error is raised
NetworkErrors == {"reqwest"}
AuthErrors == {"login failed"}
ApiErrors == {"failed to add magnet", "failed to add torrent file", "serde_json"}
IoErrors == {"io"}

IsAdd == cli.command.type = "Add"
IsList == cli.command.type = "List"

LoginRequests == {i \in 1..Len(sent) : sent[i].path = LoginPath}
OpRequests == {i \in 1..Len(sent) : sent[i].path \in {AddPath, InfoPath}}

TablePrinted == \E i \in 1..Len(out) : out[i][1] = "table"

\* A response whose status and body both arrived
Received(resp) == IsSome(resp) /\ IsSome(Get(resp).body)
StatusOf(resp) == Get(resp).status
TextOf(resp) == Get(Get(resp).body).text

----------------------------------------------------------------------------
(* C1: with dry_run set, an add invocation (magnet or file) sends no       *)
(* request at all, neither the login POST nor the add POST, also when both *)
(* username and password are present.                                      *)
C1_DryRunAddSendsNothing ==
    (cli.dry_run /\ IsAdd) => sent = <<>>

C1_Witness ==
    /\ cli.dry_run /\ IsAdd
    /\ IsSome(username) /\ IsSome(password)
    /\ pc = "exit" /\ result = "ok"
    /\ sent = <<>>

(* C2: with dry_run set, an add that main has called (the save path is     *)
(* resolved) returns success for every magnet and every file input, also   *)
(* for a file that cannot be opened.                                       *)
C2_DryRunAddAlwaysSucceeds ==
    (cli.dry_run /\ IsAdd /\ IsSome(save_path) /\ pc = "exit") => result = "ok"

(* C3: when username or password is absent (also when exactly one is       *)
(* present), login sends nothing and returns success, and the operation    *)
(* request follows: it is about to be sent or is the only request sent.    *)
C3_LoginWithoutCredentialsIsNoOp ==
    (loginRes # "none" /\ ~(IsSome(username) /\ IsSome(password))) =>
        /\ loginRes = "ok"
        /\ loginResp = None
        /\ LoginRequests = {}
        /\ \/ pc \in {"post_magnet", "post_file", "get_info"} /\ sent = <<>>
           \/ Len(sent) = 1 /\ OpRequests = {1}

C3_Witness ==
    /\ IsSome(username) /\ ~IsSome(password)
    /\ loginRes = "ok"
    /\ pc = "exit"
    /\ Len(sent) = 1 /\ OpRequests = {1}

(* C4: when login has received a response (both credentials present), it   *)
(* succeeds iff the body is exactly `Ok.`; any other body is the error     *)
(* "login failed" carrying that body, whatever the HTTP status.            *)
C4_LoginDecidedByBody ==
    Received(loginResp) =>
        /\ IsSome(username) /\ IsSome(password)
        /\ (TextOf(loginResp) = "Ok.") <=> (loginRes = "ok")
        /\ (TextOf(loginResp) = "Ok.") => result \notin AuthErrors
        /\ (TextOf(loginResp) # "Ok.") =>
              /\ loginRes = "err"
              /\ result \in AuthErrors
              /\ errText = Some(TextOf(loginResp))

C4_Witness ==
    /\ Received(loginResp)
    /\ is_success(StatusOf(loginResp))
    /\ TextOf(loginResp) = "Ok"
    /\ result = "login failed"
    /\ errText = Some("Ok")

(* C5: an operation request (POST torrents/add, GET torrents/info) is in   *)
(* the log only if login has returned success before it, after every login *)
(* request; after a failed login no operation request is ever sent.        *)
C5_LoginBeforeOperation ==
    /\ (OpRequests # {}) =>
          /\ loginRes = "ok"
          /\ \A i \in OpRequests : \A j \in LoginRequests : j < i
    /\ (loginRes = "err") => OpRequests = {}

C5_Witness ==
    /\ ~cli.dry_run
    /\ Len(sent) = 2
    /\ sent[1].path = LoginPath
    /\ sent[2].path = AddPath
    /\ loginRes = "ok"

(* C6: in the real path of add, once the answer to the add request has     *)
(* arrived, add succeeds iff its HTTP status is a success status; any      *)
(* other status is the add failure carrying the body, whatever the body.   *)
C6_AddDecidedByStatus ==
    (IsAdd /\ Received(opResp)) =>
        /\ is_success(StatusOf(opResp)) <=> (pc = "added" \/ result = "ok")
        /\ ~is_success(StatusOf(opResp)) =>
              /\ result \in {"failed to add magnet", "failed to add torrent file"}
              /\ errText = Some(TextOf(opResp))

C6_Witness ==
    /\ IsAdd /\ Received(opResp)
    /\ ~is_success(StatusOf(opResp))
    /\ TextOf(opResp) = "Ok."
    /\ result = "failed to add torrent file"
    /\ errText = Some("Ok.")

(* C7: once the answer to torrents/info has arrived, list fails with an    *)
(* ApiError and prints no table whenever the status is not a success       *)
(* status or the body does not decode; a table is printed only for a       *)
(* success status with a decodable body.                                   *)
C7_ListRejectsBadStatusOrBody ==
    (IsList /\ Received(opResp)) =>
        /\ (~is_success(StatusOf(opResp)) \/ ~IsSome(from_str(Get(Get(opResp).body)))) =>
              (result \in ApiErrors /\ ~TablePrinted)
        /\ TablePrinted =>
              (is_success(StatusOf(opResp)) /\ IsSome(from_str(Get(Get(opResp).body))))

(* C8: with dry_run set no request is sent and the outcome is never a      *)
(* Network, Api or Auth error, whatever the subcommand (add or list).      *)
C8_DryRunNeverUsesNetwork ==
    cli.dry_run =>
        /\ sent = <<>>
        /\ result \notin (NetworkErrors \cup ApiErrors \cup AuthErrors)

\* The value the loaded configuration gives for a field of [qbittorrent]
FileHost == IF IsSome(config.qbittorrent) THEN Some(Get(config.qbittorrent).host) ELSE None
FileUsername == IF IsSome(config.qbittorrent) THEN Get(config.qbittorrent).username ELSE None
FilePassword == IF IsSome(config.qbittorrent) THEN Get(config.qbittorrent).password ELSE None

\* The first present value in the order CLI, file, default
FirstPresent(fromCli, fromFile, default) ==
    IF fromCli # None THEN fromCli
    ELSE IF fromFile # None THEN fromFile
    ELSE default

\* s without its trailing '/' characters: the prefix of s that does not end
\* in '/' and is followed by '/' only
StripSlashes(s) ==
    LET k == CHOOSE k \in 0..Len(s) :
                 /\ \A i \in (k + 1)..Len(s) : s[i] = "/"
                 /\ k = 0 \/ s[k] # "/"
    IN SubSeq(s, 1, k)

(* C9: once main has resolved the settings, each of host, username and     *)
(* password is the first present value among the CLI flag, the loaded      *)
(* config and the default (host http://127.0.0.1:8080, no credentials),    *)
(* the host without trailing slashes; a field depends on its own sources   *)
(* only.                                                                   *)
C9_SettingsPrecedence ==
    (pc = "dispatch") =>
        /\ host = StripSlashes(Get(FirstPresent(cli.host, FileHost, Some(DefaultHost))))
        /\ username = FirstPresent(cli.username, FileUsername, None)
        /\ password = FirstPresent(cli.password, FilePassword, None)

C9_Witness ==
    /\ pc = "dispatch"
    /\ cli.host = None /\ FileHost = Some(<<"x", "x">>) /\ host = <<"x", "x">>
    /\ cli.username = Some("cu") /\ FileUsername = Some("fu") /\ username = Some("cu")
    /\ cli.password = None /\ FilePassword = None /\ password = None

(* C10: the effective host never ends in '/', whether it comes from the    *)
(* CLI, the config file or the default and however many '/' the source     *)
(* value ends in, and normalizing it again leaves it unchanged.            *)
C10_HostNormalized ==
    (pc = "dispatch") =>
        /\ host = <<>> \/ host[Len(host)] # "/"
        /\ trim_end_matches(host) = host
        /\ \E n \in 0..(MaxHostLen + 1) :
              host \o [i \in 1..n |-> "/"] =
                  Get(FirstPresent(cli.host, FileHost, Some(DefaultHost)))

C10_Witness ==
    /\ pc = "dispatch"
    /\ cli.host = None
    /\ FileHost = Some(<<"x", "/", "/">>)
    /\ host = <<"x">>

\* The indexes of a snapshot the active view is to keep, for records that
\* report their progress: incomplete, or transferring in either direction
ActiveIdx(ts) ==
    {i \in 1..Len(ts) :
        \/ Get(ts[i].progress) < 100
        \/ (IsSome(ts[i].dlspeed) /\ Get(ts[i].dlspeed) > 0)
        \/ (IsSome(ts[i].upspeed) /\ Get(ts[i].upspeed) > 0)}

\* The j-th smallest element of a set of indexes
NthOf(I, j) == CHOOSE i \in I : Cardinality({k \in I : k <= i}) = j

\* rows is ts restricted to the indexes I, in the order of ts
IsRestriction(rows, ts, I) ==
    /\ Len(rows) = Cardinality(I)
    /\ \A j \in 1..Len(rows) : rows[j] = ts[NthOf(I, j)]

(* C11: for a snapshot whose records report their progress, the active     *)
(* view keeps exactly the records with progress < 1.0 or a download or     *)
(* upload rate > 0, the all view keeps every record, and in both the rows  *)
(* are the kept records in snapshot order, none added or repeated.         *)
C11_FilterKeepsActiveInOrder ==
    (pc = "return" /\ \A i \in 1..Len(arg.torrents) : IsSome(arg.torrents[i].progress)) =>
        IsRestriction(Get(ret).rows, arg.torrents,
                      IF arg.all THEN 1..Len(arg.torrents) ELSE ActiveIdx(arg.torrents))

C11_Witness ==
    /\ pc = "return" /\ ~arg.all
    /\ Len(arg.torrents) = 2
    /\ arg.torrents[1].progress = Some(100)
    /\ arg.torrents[1].dlspeed = Some(0) /\ arg.torrents[1].upspeed = Some(0)
    /\ arg.torrents[2].progress = Some(50)
    /\ Get(ret).rows = <<arg.torrents[2]>>

\* The names given to truncate: TruncateLen - 2 up to TruncateLen +
\* MaxNameExtra characters, all ASCII or with one character of 2 or 3 bytes
Names ==
    {Repeat("a", k) : k \in (TruncateLen - 2)..(TruncateLen + MaxNameExtra)}
      \cup UNION {{[Repeat("a", k) EXCEPT ![p] = c] :
                      p \in 1..k, c \in {TwoByteChar, ThreeByteChar}} :
                   k \in (TruncateLen - 2)..(TruncateLen + MaxNameExtra)}

InitTruncate ==
    /\ Idle
    /\ arg \in Names
    /\ ret = None
    /\ pc = "call"

\* list_torrents, line 216: truncate(&t.name, 40); the returned value is
\* None when truncate panics
Truncate ==
    /\ pc = "call"
    /\ ret' = truncate(arg, TruncateLen)
    /\ pc' = IF IsSome(ret') THEN "return" ELSE "panic"
    /\ UNCHANGED <<arg, flowVars>>

NextTruncate == Truncate

SpecTruncate == InitTruncate /\ [][NextTruncate]_vars

(* C12: for every name, of ASCII or multi-byte characters, truncate        *)
(* returns: the first 40 characters followed by `...` when the name has    *)
(* more than 40 characters, the name unchanged otherwise.                  *)
C12_TruncateCountsCharacters ==
    (pc # "call") =>
        /\ pc = "return"
        /\ Get(ret) = IF Len(arg) > TruncateLen
                      THEN SubSeq(arg, 1, TruncateLen) \o <<".", ".", ".">>
                      ELSE arg

\* The rates given to bytes_human: around 1 and 2 of each unit, the rates
\* of the documented examples and a rate half way between two hundredths
RateSamples ==
    {n \in {m * u + d : m \in 1..2, u \in {1, KB, KB * KB}, d \in -MaxRateDelta..MaxRateDelta}
              \cup {KB * KB * KB + d : d \in -MaxRateDelta..MaxRateDelta}
              \cup {0, 2048, 1152, KB * KB * KB} : n >= 0}

InitRate ==
    /\ Idle
    /\ arg \in RateSamples
    /\ ret = None
    /\ pc = "call"

\* list_torrents, lines 219-220: bytes_human of a rate
BytesHuman ==
    /\ pc = "call"
    /\ ret' = Some(bytes_human(arg))
    /\ pc' = "return"
    /\ UNCHANGED <<arg, flowVars>>

NextRate == BytesHuman

SpecRate == InitRate /\ [][NextRate]_vars

(* C13: bytes_human picks the largest unit in which the rate is at least   *)
(* 1: B/s as an integer below 1024, KB/s from 1024, MB/s from 1024^2,      *)
(* GB/s from 1024^3, the scaled units with two decimals; 0 gives `0 B/s`,  *)
(* 2048 gives `2.00 KB/s` and 1073741824 gives `1.00 GB/s`.                *)
C13_RateUnit ==
    (pc = "return") =>
        LET r == Get(ret) IN
        /\ (arg < 1024) <=> (r.unit = "B/s")
        /\ (1024 <= arg /\ arg < 1024 * 1024) <=> (r.unit = "KB/s")
        /\ (1024 * 1024 <= arg /\ arg < 1024 * 1024 * 1024) <=> (r.unit = "MB/s")
        /\ (1024 * 1024 * 1024 <= arg) <=> (r.unit = "GB/s")
        /\ (r.unit = "B/s") => (r.decimals = 0 /\ r.num = arg)
        /\ (r.unit # "B/s") => (r.decimals = 2 /\ r.num >= 100)
        /\ (arg = 0) => r = [num |-> 0, decimals |-> 0, unit |-> "B/s"]
        /\ (arg = 2048) => r = [num |-> 200, decimals |-> 2, unit |-> "KB/s"]
        /\ (arg = 1073741824) => r = [num |-> 100, decimals |-> 2, unit |-> "GB/s"]

C13_Witness ==
    /\ pc = "return"
    /\ arg = 1073741824
    /\ Get(ret) = [num |-> 100, decimals |-> 2, unit |-> "GB/s"]

\* The lines of the output that show a save path, and the path they show
PathLines ==
    {i \in 1..Len(out) : out[i][1] \in {"[dry-run] form params", "[dry-run] savepath",
                                        "Added to qBittorrent (destination)"}}
PathShown(line) == IF line[1] = "[dry-run] form params" THEN line[3] ELSE line[2]

(* C14: the save path of an add is the CLI destination when given, else    *)
(* the default_save_path of the loaded config when present, else the       *)
(* current directory; the `savepath` field of the add request, the dry-run *)
(* lines and the final status line all carry that same path.               *)
C14_SavePathResolution ==
    /\ IsSome(save_path) =>
          save_path = FirstPresent(cli.command.dest, config.default_save_path, Some(Cwd))
    /\ \A i \in OpRequests :
          IsAdd => sent[i].body.savepath =
                      Get(FirstPresent(cli.command.dest, config.default_save_path, Some(Cwd)))
    /\ \A i \in PathLines :
          PathShown(out[i]) =
              Get(FirstPresent(cli.command.dest, config.default_save_path, Some(Cwd)))

C14_Witness ==
    /\ IsAdd /\ ~cli.dry_run
    /\ cli.command.dest = None
    /\ config.default_save_path = Some("cfgpath")
    /\ pc = "exit" /\ result = "ok"
    /\ sent[Len(sent)].body.savepath = "cfgpath"
    /\ out[Len(out)] = <<"Added to qBittorrent (destination)", "cfgpath">>

(* C15: in the real path of add-file with both credentials present, the    *)
(* file is opened only after login: when the invocation has ended, the     *)
(* login request was issued even if the file cannot be opened, and a       *)
(* failed open is an I/O error with no add request sent.                   *)
C15_LoginBeforeFileOpen ==
    (/\ Callee(cli) = "add_torrent_file" /\ ~cli.dry_run
     /\ IsSome(save_path) /\ pc = "exit"
     /\ IsSome(username) /\ IsSome(password)) =>
        /\ LoginRequests # {}
        /\ (result \in IoErrors) => OpRequests = {}

Failed == result \notin {"none", "ok"}

\* At most one login request, then at most one operation request
AtMostLoginThenOperation ==
    /\ Len(sent) <= 2
    /\ Cardinality(LoginRequests) <= 1
    /\ Cardinality(OpRequests) <= 1
    /\ \A i \in LoginRequests : i = 1

(* C16: an invocation sends at most two requests, at most one login        *)
(* request followed by at most one operation request, none of them twice,  *)
(* and once the invocation has failed no further request is sent.          *)
C16_AtMostTwoRoundTrips ==
    /\ []AtMostLoginThenOperation
    /\ [][Failed => sent' = sent]_vars

C16_Witness ==
    /\ Len(sent) = 2
    /\ sent[1].path = LoginPath /\ sent[2].path = AddPath
    /\ result = "failed to add magnet"
    /\ pc = "exit"

AddedPrinted ==
    \E i \in 1..Len(out) : out[i][1] = "Added to qBittorrent (destination)"

(* C17: the line `Added to qBittorrent (destination: <path>)` is printed   *)
(* only when add returned success and never after an error; without       *)
(* dry_run the add request was then sent and answered with a success       *)
(* status and a login request, if one was sent, was answered `Ok.`; with   *)
(* dry_run the line is printed although nothing was sent.                  *)
C17_AddedOnlyAfterSuccess ==
    /\ Failed => ~AddedPrinted
    /\ AddedPrinted =>
          /\ IsAdd /\ result = "ok"
          /\ ~cli.dry_run =>
                /\ OpRequests = {Len(sent)}
                /\ sent[Len(sent)].path = AddPath
                /\ Received(opResp) /\ is_success(StatusOf(opResp))
                /\ (LoginRequests # {}) =>
                       (Received(loginResp) /\ TextOf(loginResp) = "Ok.")
          /\ cli.dry_run => sent = <<>>

C17_Witness ==
    /\ AddedPrinted /\ ~cli.dry_run
    /\ Len(sent) = 2
    /\ TextOf(loginResp) = "Ok."
    /\ StatusOf(opResp) = 299
    /\ result = "ok"

\* The indexes of the records of a sequence that report no progress
NoProgressIdx(ts) == {i \in 1..Len(ts) : ts[i].progress = None}

(* C18: in the active view every record without progress is kept, whatever *)
(* its rates, and its row shows the progress `-`; a row of a record that   *)
(* reports its progress shows a percentage.                                *)
C18_AbsentProgressRetained ==
    (pc = "return" /\ ~arg.all) =>
        LET rows == Get(ret).rows
            table == Get(Get(ret).table)
        IN  /\ IsRestriction(SelectSeq(rows, LAMBDA t : t.progress = None),
                             arg.torrents, NoProgressIdx(arg.torrents))
            /\ Len(table) = Len(rows)
            /\ \A j \in 1..Len(rows) :
                  IF rows[j].progress = None
                  THEN table[j].progress = [num |-> 0, decimals |-> 0, unit |-> "-"]
                  ELSE table[j].progress.unit = "%"

C18_Witness ==
    /\ pc = "return" /\ ~arg.all
    /\ Len(arg.torrents) = 1
    /\ arg.torrents[1].progress = None
    /\ arg.torrents[1].dlspeed = Some(0) /\ arg.torrents[1].upspeed = None
    /\ Get(ret).rows = arg.torrents
    /\ Get(Get(ret).table)[1].progress.unit = "-"
====
